---------------------------- MODULE Spec2Model ----------------------------
(***************************************************************************)
(* State-machine model of the AgroWise crop-disease API:                   *)
(*   app/services/llm_service.py   advisory pipeline (recommendations,     *)
(*                                 chat) with its fallback bank            *)
(*   app/routes/predict.py         decoder of the classifier's scores      *)
(*   app/routes/chat.py            chat endpoint                           *)
(*   app/routes/market_prices.py   market price listing and trending view  *)
(*                                                                         *)
(* Text is a sequence.  Text the code inspects character by character      *)
(* (the text service's answer, the class labels) is a sequence of          *)
(* one-character strings; the literal parts of the canned templates are    *)
(* kept as whole fragments, so a template is the concatenation of its      *)
(* elements.  "U+2022" stands for the single bullet character, and the     *)
(* Hindi literals are named by their place in the source (the parser       *)
(* reads ASCII only).                                                      *)
(*                                                                         *)
(* Python values are tagged records [type, val]: str, num, list, dict,     *)
(* none, true, false.                                                      *)
(***************************************************************************)
EXTENDS Integers, Sequences, FiniteSets, TLC

(***************************************************************************)
(* Python string methods used by the code.                                 *)
(***************************************************************************)
Min(a, b) == IF a <= b THEN a ELSE b

\* the characters str.strip() removes, among those the model's texts use
PyWhitespace == {" ", "\t", "\n", "\r"}

\* the least element of a non-empty set of integers
Least(S) == CHOOSE k \in S : \A m \in S : k <= m

\* str.lstrip(chars): drop leading characters as long as they are in chars
LStrip(s, chars) ==
    LET stay == {i \in 1..Len(s) : s[i] \notin chars}
    IN  IF stay = {} THEN <<>> ELSE SubSeq(s, Least(stay), Len(s))

\* the right-hand half of str.strip()
RStrip(s, chars) ==
    LET stay == {i \in 1..Len(s) : s[i] \notin chars}
    IN  IF stay = {} THEN <<>>
        ELSE SubSeq(s, 1, CHOOSE k \in stay : \A m \in stay : m <= k)

\* str.strip(): surrounding whitespace removed
Strip(s) == RStrip(LStrip(s, PyWhitespace), PyWhitespace)

\* str.startswith(prefix)
StartsWith(s, prefix) ==
    Len(s) >= Len(prefix) /\ SubSeq(s, 1, Len(prefix)) = prefix

RECURSIVE SplitFrom(_, _, _)
\* the pieces of s from position i on: cut at the next occurrence of sep
SplitFrom(s, sep, i) ==
    LET hits == {j \in i..(Len(s) - Len(sep) + 1) : SubSeq(s, j, j + Len(sep) - 1) = sep}
    IN  IF hits = {} THEN <<SubSeq(s, i, Len(s))>>
        ELSE <<SubSeq(s, i, Least(hits) - 1)>> \o SplitFrom(s, sep, Least(hits) + Len(sep))

\* str.split(sep): the pieces between non-overlapping occurrences of sep
Split(s, sep) == SplitFrom(s, sep, 1)

\* s[:n] for n >= 0
Take(s, n) == SubSeq(s, 1, Min(n, Len(s)))

UpperCase ==
    <<"A","B","C","D","E","F","G","H","I","J","K","L","M",
      "N","O","P","Q","R","S","T","U","V","W","X","Y","Z">>
LowerCase ==
    <<"a","b","c","d","e","f","g","h","i","j","k","l","m",
      "n","o","p","q","r","s","t","u","v","w","x","y","z">>

\* the lower-case letter of each upper-case letter
LowerOf == [c \in {UpperCase[k] : k \in 1..Len(UpperCase)} |->
              LowerCase[CHOOSE k \in 1..Len(UpperCase) : UpperCase[k] = c]]

LowerChar(c) == IF c \in DOMAIN LowerOf THEN LowerOf[c] ELSE c

\* str.lower()
Lower(s) == [i \in 1..Len(s) |-> LowerChar(s[i])]

\* str.replace(old, new) for single characters
Replace(s, old, new) == [i \in 1..Len(s) |-> IF s[i] = old THEN new ELSE s[i]]

(***************************************************************************)
(* Python values.                                                          *)
(***************************************************************************)
PyStr(s)   == [type |-> "str",   val |-> s]
PyNum(s)   == [type |-> "num",   val |-> s]
PyList(xs) == [type |-> "list",  val |-> xs]
PyDict(ms) == [type |-> "dict",  val |-> ms]
PyNone     == [type |-> "none",  val |-> <<>>]
PyTrue     == [type |-> "true",  val |-> <<>>]
PyFalse    == [type |-> "false", val |-> <<>>]

Digits == {"0", "1", "2", "3", "4", "5", "6", "7", "8", "9"}

\* bool(v): empty containers, zero, None and False are falsy
Truthy(v) ==
    CASE v.type = "str"   -> Len(v.val) > 0
      [] v.type = "list"  -> Len(v.val) > 0
      [] v.type = "dict"  -> Len(v.val) > 0
      [] v.type = "num"   -> \E i \in 1..Len(v.val) : v.val[i] \in Digits \ {"0"}
      [] v.type = "true"  -> TRUE
      [] OTHER            -> FALSE

(***************************************************************************)
(* json.loads, for documents made of strings without escapes, numbers      *)
(* without exponent, arrays, objects and the three literals.  A parse      *)
(* result is [ok, val, next]: next is the position after the value.        *)
(***************************************************************************)
JsonWhitespace == {" ", "\t", "\n", "\r"}
ControlChars == {"\t", "\n", "\r"}

ParseFail == [ok |-> FALSE, val |-> PyNone, next |-> 0]
ParseOk(v, n) == [ok |-> TRUE, val |-> v, next |-> n]

CharAt(t, i) == IF i >= 1 /\ i <= Len(t) THEN t[i] ELSE "EOF"

\* the first position from i on that holds no character of chars
SkipChars(t, i, chars) ==
    LET stay == {j \in i..Len(t) : t[j] \notin chars}
    IN  IF stay = {} THEN IF i > Len(t) THEN i ELSE Len(t) + 1 ELSE Least(stay)

SkipWs(t, i) == SkipChars(t, i, JsonWhitespace)

SkipDigits(t, i) == SkipChars(t, i, Digits)

\* a string starting at the quote t[i]: up to the next quote, no control
\* character inside
ParseString(t, i) ==
    LET closing == {j \in (i + 1)..Len(t) : t[j] = "\""}
    IN  IF closing = {} THEN ParseFail
        ELSE LET j == Least(closing)
                 body == SubSeq(t, i + 1, j - 1)
             IN  IF \E k \in 1..Len(body) : body[k] \in ControlChars
                 THEN ParseFail
                 ELSE ParseOk(PyStr(body), j + 1)

\* -?(0|[1-9][0-9]*)(\.[0-9]+)? matched at t[i]
ParseNumber(t, i) ==
    LET d == IF CharAt(t, i) = "-" THEN i + 1 ELSE i
        intEnd == IF CharAt(t, d) = "0" THEN d + 1 ELSE SkipDigits(t, d)
        fracEnd == IF CharAt(t, intEnd) = "." /\ CharAt(t, intEnd + 1) \in Digits
                   THEN SkipDigits(t, intEnd + 1)
                   ELSE intEnd
    IN  IF CharAt(t, d) \notin Digits THEN ParseFail
        ELSE ParseOk(PyNum(SubSeq(t, i, fracEnd - 1)), fracEnd)

ParseLiteral(t, i, word, v) ==
    IF SubSeq(t, i, Min(Len(t), i + Len(word) - 1)) = word
    THEN ParseOk(v, i + Len(word))
    ELSE ParseFail

RECURSIVE ParseValue(_, _)
RECURSIVE ParseElements(_, _, _)
RECURSIVE ParseMembers(_, _, _)

\* the elements of an array from t[i] on, after acc
ParseElements(t, i, acc) ==
    LET r == ParseValue(t, i)
        j == SkipWs(t, r.next)
    IN  IF ~r.ok THEN ParseFail
        ELSE IF CharAt(t, j) = "," THEN ParseElements(t, SkipWs(t, j + 1), Append(acc, r.val))
        ELSE IF CharAt(t, j) = "]" THEN ParseOk(PyList(Append(acc, r.val)), j + 1)
        ELSE ParseFail

\* the "key": value members of an object from t[i] on, after acc
ParseMembers(t, i, acc) ==
    LET k == IF CharAt(t, i) = "\"" THEN ParseString(t, i) ELSE ParseFail
        c == SkipWs(t, k.next)
        r == IF k.ok /\ CharAt(t, c) = ":" THEN ParseValue(t, SkipWs(t, c + 1)) ELSE ParseFail
        j == SkipWs(t, r.next)
        m == <<k.val, r.val>>
    IN  IF ~r.ok THEN ParseFail
        ELSE IF CharAt(t, j) = "," THEN ParseMembers(t, SkipWs(t, j + 1), Append(acc, m))
        ELSE IF CharAt(t, j) = "}" THEN ParseOk(PyDict(Append(acc, m)), j + 1)
        ELSE ParseFail

ParseValue(t, i) ==
    LET c == CharAt(t, i)
    IN  CASE c = "\"" -> ParseString(t, i)
          [] c = "["  -> LET j == SkipWs(t, i + 1)
                         IN  IF CharAt(t, j) = "]" THEN ParseOk(PyList(<<>>), j + 1)
                             ELSE ParseElements(t, j, <<>>)
          [] c = "{"  -> LET j == SkipWs(t, i + 1)
                         IN  IF CharAt(t, j) = "}" THEN ParseOk(PyDict(<<>>), j + 1)
                             ELSE ParseMembers(t, j, <<>>)
          [] c = "-" \/ c \in Digits -> ParseNumber(t, i)
          [] c = "n"  -> ParseLiteral(t, i, <<"n","u","l","l">>, PyNone)
          [] c = "t"  -> ParseLiteral(t, i, <<"t","r","u","e">>, PyTrue)
          [] c = "f"  -> ParseLiteral(t, i, <<"f","a","l","s","e">>, PyFalse)
          [] OTHER    -> ParseFail

\* json.loads(t): one value, surrounded by whitespace only; ~ok is
\* json.JSONDecodeError
JsonLoads(t) ==
    LET r == ParseValue(t, SkipWs(t, 1))
    IN  IF r.ok /\ SkipWs(t, r.next) = Len(t) + 1 THEN r ELSE ParseFail

(***************************************************************************)
(* app/services/llm_service.py                                             *)
(*                                                                         *)
(* The text service (Groq) is an external collaborator.  Its behaviour on  *)
(* one call is an outcome: kind "error" (the call raises), kind "none"     *)
(* (the message carries no content) or kind "text" with the text returned. *)
(* A pipeline function returns [value, calls]: its return value and the    *)
(* outbound calls it made.                                                 *)
(***************************************************************************)
\* os.getenv("GROQ_API_KEY") of an unset variable is None; None and the
\* empty string are both falsy at the test "if not api_key"
NoKey == ""

language_names ==
    [l \in {"en", "hi", "ta", "te", "pa"} |->
        CASE l = "en" -> "English"
          [] l = "hi" -> "Hindi"
          [] l = "ta" -> "Tamil"
          [] l = "te" -> "Telugu"
          [] l = "pa" -> "Punjabi"]

\* dict.get(key, default)
DictGet(d, key, default) == IF key \in DOMAIN d THEN d[key] ELSE default

\* client.chat.completions.create(...): what is sent to the text service
GroqCall(lang_name, max_tokens) ==
    [service |-> "groq", model |-> "llama-3.3-70b-versatile",
     lang_name |-> lang_name, max_tokens |-> max_tokens]

\* the "en" entry of the fallback bank
FallbackEn(crop, disease) ==
    << PyStr(<<"Remove and destroy infected ">> \o Lower(crop)
             \o <<" plant parts immediately">>),
       PyStr(<<"Apply appropriate fungicide or pesticide for ">>
             \o Replace(disease, "_", " ")),
       PyStr(<<"Improve air circulation between plants">>),
       PyStr(<<"Avoid overhead watering to reduce moisture on leaves">>),
       PyStr(<<"Monitor neighboring plants for similar symptoms">>),
       PyStr(<<"Consult local agricultural extension officer for treatment">>) >>

\* the "hi" entry of the fallback bank; "hi:<line><part>" names the Hindi
\* literal at that line of llm_service.py
FallbackHi(crop, disease) ==
    << PyStr(<<"hi:110a">> \o crop \o <<"hi:110b">>),
       PyStr(Replace(disease, "_", " ") \o <<"hi:111">>),
       PyStr(<<"hi:112">>),
       PyStr(<<"hi:113">>),
       PyStr(<<"hi:114">>),
       PyStr(<<"hi:115">>) >>

\* a variant that knows the English list alone
FallbackEnglishOnly(crop, disease, language) == PyList(FallbackEn(crop, disease))

\* lines 96-119
get_fallback_recommendations(crop, disease, language) ==
    LET fallback == [l \in {"en", "hi"} |->
                        IF l = "en" THEN FallbackEn(crop, disease)
                                    ELSE FallbackHi(crop, disease)]
    IN  PyList(DictGet(fallback, language, fallback["en"]))

\* line.strip().lstrip('-').lstrip(bullet).lstrip('*').lstrip('1234567890.').strip()
CleanLine(line) ==
    Strip(LStrip(LStrip(LStrip(LStrip(Strip(line), {"-"}), {"U+2022"}), {"*"}),
                 Digits \cup {"."}))

\* the condition of the list comprehension over the lines
KeepLine(line) ==
    /\ Strip(line) # <<>>
    /\ ~StartsWith(Strip(line), <<"[">>)
    /\ ~StartsWith(Strip(line), <<"]">>)

LongEnough(r) == Len(r) > 10

\* the except json.JSONDecodeError branch: at most 6 cleaned lines
HeuristicParse(text) ==
    LET lines == SelectSeq(Split(text, <<"\n">>), KeepLine)
        cleaned == [i \in 1..Len(lines) |-> CleanLine(lines[i])]
    IN  Take(SelectSeq(cleaned, LongEnough), 6)

UseFallback == [found |-> FALSE, value |-> PyNone]
Found(v) == [found |-> TRUE, value |-> v]

\* from the answer of the text service to the recommendations taken from
\* it: the strip, json.loads and its except branch, and the test of the
\* final return, where found = FALSE is the case that returns the fallback
ExtractRecommendations(content) ==
    LET recommendations_text == Strip(content)
        parsed == JsonLoads(recommendations_text)
        heuristic == HeuristicParse(recommendations_text)
    IN  IF parsed.ok
        THEN IF parsed.val.type = "list" /\ Len(parsed.val.val) > 0
             THEN Found(PyList(Take(parsed.val.val, 6)))
             ELSE IF Truthy(parsed.val) THEN Found(parsed.val) ELSE UseFallback
        ELSE IF heuristic # <<>>
             THEN Found(PyList([i \in 1..Len(heuristic) |-> PyStr(heuristic[i])]))
             ELSE UseFallback

(***************************************************************************)
(* The behaviours of the text service the model draws from: lines an       *)
(* answer in prose is made of, and whole answers in and around JSON.       *)
(***************************************************************************)
MaxLines == 2

\* the text - Prune infected leaves
LineDash == <<
      "-"," ","P","r","u","n","e"," ","i","n","f","e","c","t","e","d"," ","l",
      "e","a","v","e","s" >>

\* the text 1. Spray neem oil weekly
LineNumbered == <<
      "1","."," ","S","p","r","a","y"," ","n","e","e","m"," ","o","i","l"," ",
      "w","e","e","k","l","y" >>

\* the text U+2022 Mulch soils
LineBullet == <<
      "U+2022"," ","M","u","l","c","h"," ","s","o","i","l","s" >>

\* the text   * Water at the base  
LineStar == <<
      " "," ","*"," ","W","a","t","e","r"," ","a","t"," ","t","h","e"," ","b",
      "a","s","e"," "," " >>

\* the text 10. Pick fruit
LineTenChars == <<
      "1","0","."," ","P","i","c","k"," ","f","r","u","i","t" >>

\* the text ['Remove infected leaves',   (' stands for the double quote)
LineBracket == <<
      "[","\"","R","e","m","o","v","e"," ","i","n","f","e","c","t","e","d",
      " ","l","e","a","v","e","s","\"","," >>

\* the empty text
LineEmpty == <<>>

LinePool ==
    {LineDash, LineNumbered, LineBullet, LineStar,
     LineTenChars, LineBracket, LineEmpty}

RECURSIVE JoinLines(_)
\* "\n".join(lines)
JoinLines(lines) ==
    IF Len(lines) = 1 THEN lines[1]
    ELSE lines[1] \o <<"\n">> \o JoinLines(Tail(lines))

LineTexts ==
    {JoinLines(ls) : ls \in UNION {[1..n -> LinePool] : n \in 1..MaxLines}}

\* the text ['Remove infected leaves', 'Spray neem oil weekly']   (' stands for the double quote)
TextArrayOfTwo == <<
      "[","\"","R","e","m","o","v","e"," ","i","n","f","e","c","t","e","d",
      " ","l","e","a","v","e","s","\"",","," ","\"","S","p","r","a","y"," ",
      "n","e","e","m"," ","o","i","l"," ","w","e","e","k","l","y","\"","]" >>

\* the text ['r1', 'r2', 'r3', 'r4', 'r5', 'r6', 'r7', 'r8']   (' stands for the double quote)
TextArrayOfEight == <<
      "[","\"","r","1","\"",","," ","\"","r","2","\"",","," ","\"","r","3",
      "\"",","," ","\"","r","4","\"",","," ","\"","r","5","\"",","," ","\"",
      "r","6","\"",","," ","\"","r","7","\"",","," ","\"","r","8","\"","]" >>

\* the text []
TextEmptyArray == <<
      "[","]" >>

\* the text [1, 2]
TextArrayOfNumbers == <<
      "[","1",","," ","2","]" >>

\* the text [['Prune'], {'step': 2}]   (' stands for the double quote)
TextNestedArray == <<
      "[","[","\"","P","r","u","n","e","\"","]",","," ","{","\"","s","t","e",
      "p","\"",":"," ","2","}","]" >>

\* the text {'advice': 'Spray neem oil'}   (' stands for the double quote)
TextObject == <<
      "{","\"","a","d","v","i","c","e","\"",":"," ","\"","S","p","r","a","y",
      " ","n","e","e","m"," ","o","i","l","\"","}" >>

\* the text {}
TextEmptyObject == <<
      "{","}" >>

\* the text 'Spray neem oil weekly'   (' stands for the double quote)
TextJsonString == <<
      "\"","S","p","r","a","y"," ","n","e","e","m"," ","o","i","l"," ","w",
      "e","e","k","l","y","\"" >>

\* the text ''   (' stands for the double quote)
TextEmptyJsonString == <<
      "\"","\"" >>

\* the text 42
TextNumber == <<
      "4","2" >>

\* the text 0
TextZero == <<
      "0" >>

\* the text null
TextNull == <<
      "n","u","l","l" >>

\* the text true
TextTrue == <<
      "t","r","u","e" >>

\* the text  \n['Prune infected leaves']\n    (' stands for the double quote)
TextPaddedArray == <<
      " ","\n","[","\"","P","r","u","n","e"," ","i","n","f","e","c","t","e",
      "d"," ","l","e","a","v","e","s","\"","]","\n"," " >>

\* the text  \n\t 
TextBlank == <<
      " ","\n","\t"," " >>

\* the empty text
TextEmpty == <<>>

\* the text Here you go:\n['Prune']\nGood luck!   (' stands for the double quote)
TextWrappedArray == <<
      "H","e","r","e"," ","y","o","u"," ","g","o",":","\n","[","\"","P","r",
      "u","n","e","\"","]","\n","G","o","o","d"," ","l","u","c","k","!" >>

\* the text ['Remove infected leaves',\n'Spray neem oil weekly'   (' stands for the double quote)
TextBrokenArray == <<
      "[","\"","R","e","m","o","v","e"," ","i","n","f","e","c","t","e","d",
      " ","l","e","a","v","e","s","\"",",","\n","\"","S","p","r","a","y"," ",
      "n","e","e","m"," ","o","i","l"," ","w","e","e","k","l","y","\"" >>

\* the text 1. Inspect row 1 daily\n2. Inspect row 2 daily\n3. Inspect row 3 daily\n4. Inspect row 4 daily\n5. Inspect row 5 daily\n6. Inspect row 6 daily\n7. Inspect row 7 daily
TextSevenLines == <<
      "1","."," ","I","n","s","p","e","c","t"," ","r","o","w"," ","1"," ","d",
      "a","i","l","y","\n","2","."," ","I","n","s","p","e","c","t"," ","r",
      "o","w"," ","2"," ","d","a","i","l","y","\n","3","."," ","I","n","s",
      "p","e","c","t"," ","r","o","w"," ","3"," ","d","a","i","l","y","\n",
      "4","."," ","I","n","s","p","e","c","t"," ","r","o","w"," ","4"," ","d",
      "a","i","l","y","\n","5","."," ","I","n","s","p","e","c","t"," ","r",
      "o","w"," ","5"," ","d","a","i","l","y","\n","6","."," ","I","n","s",
      "p","e","c","t"," ","r","o","w"," ","6"," ","d","a","i","l","y","\n",
      "7","."," ","I","n","s","p","e","c","t"," ","r","o","w"," ","7"," ","d",
      "a","i","l","y" >>

\* the text Water early in the morning.
TextProse == <<
      "W","a","t","e","r"," ","e","a","r","l","y"," ","i","n"," ","t","h","e",
      " ","m","o","r","n","i","n","g","." >>

CuratedTexts ==
    {TextArrayOfTwo, TextArrayOfEight, TextEmptyArray, TextArrayOfNumbers,
     TextNestedArray, TextObject, TextEmptyObject, TextJsonString,
     TextEmptyJsonString, TextNumber, TextZero, TextNull,
     TextTrue, TextPaddedArray, TextBlank, TextEmpty,
     TextWrappedArray, TextBrokenArray, TextSevenLines, TextProse}

ServiceTexts == CuratedTexts \cup LineTexts

ServiceError == [kind |-> "error", text |-> <<>>]
ServiceNoContent == [kind |-> "none", text |-> <<>>]
ServiceText(t) == [kind |-> "text", text |-> t]

ServiceOutcomes ==
    {ServiceError, ServiceNoContent} \cup {ServiceText(t) : t \in ServiceTexts}

\* ExtractRecommendations and Strip of every text drawn, computed once
Extracted == [t \in ServiceTexts \cup {<<>>} |-> ExtractRecommendations(t)]

Stripped == [t \in ServiceTexts \cup {<<>>} |-> Strip(t)]

\* the final return: what was extracted, else the fallback
OrFallback(extracted, fallback) ==
    IF extracted.found THEN extracted.value ELSE fallback

get_disease_recommendations(crop, disease, language, api_key, outcome) ==
    LET fallback == get_fallback_recommendations(crop, disease, language)
        call == GroqCall(DictGet(language_names, language, "English"), 500)
    IN  IF api_key = NoKey THEN [value |-> fallback, calls |-> <<>>]
        ELSE [value |-> IF outcome.kind # "text" THEN fallback
                        ELSE OrFallback(Extracted[outcome.text], fallback),
              calls |-> <<call>>]

get_fallback_chat_response(question, language) ==
    LET fallback == [l \in {"en", "hi"} |->
                        IF l = "en"
                        THEN <<"Thank you for your question: '">> \o question
                             \o <<"'. The AgroWise AI system would normally provide expert farming advice. Please ensure the system is properly configured for real-time responses.">>
                        ELSE <<"hi:197a">> \o question \o <<"hi:197b">>]
    IN  PyStr(DictGet(fallback, language, fallback["en"]))

get_chat_response(question, language, api_key, outcome) ==
    LET fallback == get_fallback_chat_response(question, language)
        call == GroqCall(DictGet(language_names, language, "English"), 300)
    IN  IF api_key = NoKey THEN [value |-> fallback, calls |-> <<>>]
        ELSE IF outcome.kind # "text" THEN [value |-> fallback, calls |-> <<call>>]
        ELSE [value |-> PyStr(Stripped[outcome.text]), calls |-> <<call>>]

(***************************************************************************)
(* app/routes/predict.py                                                   *)
(*                                                                         *)
(* The classifier is an external collaborator: on one request it either    *)
(* fails (the image cannot be read, the model raises) or gives one row of  *)
(* scores.  Positions are counted from 1, so position i is Python's index  *)
(* i - 1.                                                                  *)
(***************************************************************************)
class_names == <<
    \* Apple___Apple_scab
    <<
      "A","p","p","l","e","_","_","_","A","p","p","l","e","_","s","c","a","b" >>,
    \* Apple___Black_rot
    <<
      "A","p","p","l","e","_","_","_","B","l","a","c","k","_","r","o","t" >>,
    \* Apple___Cedar_apple_rust
    <<
      "A","p","p","l","e","_","_","_","C","e","d","a","r","_","a","p","p","l",
      "e","_","r","u","s","t" >>,
    \* Apple___healthy
    <<
      "A","p","p","l","e","_","_","_","h","e","a","l","t","h","y" >>,
    \* Blueberry___healthy
    <<
      "B","l","u","e","b","e","r","r","y","_","_","_","h","e","a","l","t","h",
      "y" >>,
    \* Cherry_(including_sour)___Powdery_mildew
    <<
      "C","h","e","r","r","y","_","(","i","n","c","l","u","d","i","n","g","_",
      "s","o","u","r",")","_","_","_","P","o","w","d","e","r","y","_","m","i",
      "l","d","e","w" >>,
    \* Cherry_(including_sour)___healthy
    <<
      "C","h","e","r","r","y","_","(","i","n","c","l","u","d","i","n","g","_",
      "s","o","u","r",")","_","_","_","h","e","a","l","t","h","y" >>,
    \* Corn_(maize)___Cercospora_leaf_spot Gray_leaf_spot
    <<
      "C","o","r","n","_","(","m","a","i","z","e",")","_","_","_","C","e","r",
      "c","o","s","p","o","r","a","_","l","e","a","f","_","s","p","o","t"," ",
      "G","r","a","y","_","l","e","a","f","_","s","p","o","t" >>,
    \* Corn_(maize)___Common_rust_
    <<
      "C","o","r","n","_","(","m","a","i","z","e",")","_","_","_","C","o","m",
      "m","o","n","_","r","u","s","t","_" >>,
    \* Corn_(maize)___Northern_Leaf_Blight
    <<
      "C","o","r","n","_","(","m","a","i","z","e",")","_","_","_","N","o","r",
      "t","h","e","r","n","_","L","e","a","f","_","B","l","i","g","h","t" >>,
    \* Corn_(maize)___healthy
    <<
      "C","o","r","n","_","(","m","a","i","z","e",")","_","_","_","h","e","a",
      "l","t","h","y" >>,
    \* Grape___Black_rot
    <<
      "G","r","a","p","e","_","_","_","B","l","a","c","k","_","r","o","t" >>,
    \* Grape___Esca_(Black_Measles)
    <<
      "G","r","a","p","e","_","_","_","E","s","c","a","_","(","B","l","a","c",
      "k","_","M","e","a","s","l","e","s",")" >>,
    \* Grape___Leaf_blight_(Isariopsis_Leaf_Spot)
    <<
      "G","r","a","p","e","_","_","_","L","e","a","f","_","b","l","i","g","h",
      "t","_","(","I","s","a","r","i","o","p","s","i","s","_","L","e","a","f",
      "_","S","p","o","t",")" >>,
    \* Grape___healthy
    <<
      "G","r","a","p","e","_","_","_","h","e","a","l","t","h","y" >>,
    \* Orange___Haunglongbing_(Citrus_greening)
    <<
      "O","r","a","n","g","e","_","_","_","H","a","u","n","g","l","o","n","g",
      "b","i","n","g","_","(","C","i","t","r","u","s","_","g","r","e","e","n",
      "i","n","g",")" >>,
    \* Peach___Bacterial_spot
    <<
      "P","e","a","c","h","_","_","_","B","a","c","t","e","r","i","a","l","_",
      "s","p","o","t" >>,
    \* Peach___healthy
    <<
      "P","e","a","c","h","_","_","_","h","e","a","l","t","h","y" >>,
    \* Pepper,_bell___Bacterial_spot
    <<
      "P","e","p","p","e","r",",","_","b","e","l","l","_","_","_","B","a","c",
      "t","e","r","i","a","l","_","s","p","o","t" >>,
    \* Pepper,_bell___healthy
    <<
      "P","e","p","p","e","r",",","_","b","e","l","l","_","_","_","h","e","a",
      "l","t","h","y" >>,
    \* Potato___Early_blight
    <<
      "P","o","t","a","t","o","_","_","_","E","a","r","l","y","_","b","l","i",
      "g","h","t" >>,
    \* Potato___Late_blight
    <<
      "P","o","t","a","t","o","_","_","_","L","a","t","e","_","b","l","i","g",
      "h","t" >>,
    \* Potato___healthy
    <<
      "P","o","t","a","t","o","_","_","_","h","e","a","l","t","h","y" >>,
    \* Raspberry___healthy
    <<
      "R","a","s","p","b","e","r","r","y","_","_","_","h","e","a","l","t","h",
      "y" >>,
    \* Soybean___healthy
    <<
      "S","o","y","b","e","a","n","_","_","_","h","e","a","l","t","h","y" >>,
    \* Squash___Powdery_mildew
    <<
      "S","q","u","a","s","h","_","_","_","P","o","w","d","e","r","y","_","m",
      "i","l","d","e","w" >>,
    \* Strawberry___Leaf_scorch
    <<
      "S","t","r","a","w","b","e","r","r","y","_","_","_","L","e","a","f","_",
      "s","c","o","r","c","h" >>,
    \* Strawberry___healthy
    <<
      "S","t","r","a","w","b","e","r","r","y","_","_","_","h","e","a","l","t",
      "h","y" >>,
    \* Tomato___Bacterial_spot
    <<
      "T","o","m","a","t","o","_","_","_","B","a","c","t","e","r","i","a","l",
      "_","s","p","o","t" >>,
    \* Tomato___Early_blight
    <<
      "T","o","m","a","t","o","_","_","_","E","a","r","l","y","_","b","l","i",
      "g","h","t" >>,
    \* Tomato___Late_blight
    <<
      "T","o","m","a","t","o","_","_","_","L","a","t","e","_","b","l","i","g",
      "h","t" >>,
    \* Tomato___Leaf_Mold
    <<
      "T","o","m","a","t","o","_","_","_","L","e","a","f","_","M","o","l","d" >>,
    \* Tomato___Septoria_leaf_spot
    <<
      "T","o","m","a","t","o","_","_","_","S","e","p","t","o","r","i","a","_",
      "l","e","a","f","_","s","p","o","t" >>,
    \* Tomato___Spider_mites Two-spotted_spider_mite
    <<
      "T","o","m","a","t","o","_","_","_","S","p","i","d","e","r","_","m","i",
      "t","e","s"," ","T","w","o","-","s","p","o","t","t","e","d","_","s","p",
      "i","d","e","r","_","m","i","t","e" >>,
    \* Tomato___Target_Spot
    <<
      "T","o","m","a","t","o","_","_","_","T","a","r","g","e","t","_","S","p",
      "o","t" >>,
    \* Tomato___Tomato_Yellow_Leaf_Curl_Virus
    <<
      "T","o","m","a","t","o","_","_","_","T","o","m","a","t","o","_","Y","e",
      "l","l","o","w","_","L","e","a","f","_","C","u","r","l","_","V","i","r",
      "u","s" >>,
    \* Tomato___Tomato_mosaic_virus
    <<
      "T","o","m","a","t","o","_","_","_","T","o","m","a","t","o","_","m","o",
      "s","a","i","c","_","v","i","r","u","s" >>,
    \* Tomato___healthy
    <<
      "T","o","m","a","t","o","_","_","_","h","e","a","l","t","h","y" >>
  >>

\* predicted_class.split("___") of every label, computed once
SplitLabel == [i \in 1..Len(class_names) |-> Split(class_names[i], <<"_","_","_">>)]

\* HTTPException(status_code, detail)
HttpError(status, detail) == [status |-> status, body |-> [detail |-> detail]]

HttpOk(body) == [status |-> 200, body |-> body]

\* np.argmax: the first position holding the greatest score
ArgMax(scores) ==
    LET values == {scores[i] : i \in 1..Len(scores)}
        greatest == CHOOSE v \in values : \A w \in values : w <= v
    IN  Least({i \in 1..Len(scores) : scores[i] = greatest})

NotInvoked == [invoked |-> FALSE, value |-> PyNone]

PredictFailed ==
    [response |-> HttpError(500, "Error processing the image or making predictions."),
     advisory |-> NotInvoked, calls |-> <<>>]

\* the recommendations of the healthy branch
HealthyRecommendations(predicted_crop) ==
    PyList(<< PyStr(<<"Your ">> \o predicted_crop \o <<" plant appears healthy!">>),
              PyStr(<<"Continue regular watering and fertilizing schedule">>),
              PyStr(<<"Monitor for any changes in leaf color or texture">>),
              PyStr(<<"Ensure proper sunlight and air circulation">>) >>)

Healthy == <<"h","e","a","l","t","h","y">>

\* the handler after the advisory call returned recommendations: the
\* healthy test and the two responses
PredictDecoded(predicted_class, parts, confidence, recommendations) ==
    LET predicted_crop == parts[1]
        predicted_disease == parts[2]
        common == [predicted_class |-> predicted_class,
                   predicted_crop |-> predicted_crop,
                   confidence_percentage |-> confidence]
        body == IF predicted_disease = Healthy
                THEN common @@ [isHealthy |-> "Healthy",
                                predicted_diseases |-> <<"N","u","l","l">>,
                                recommendations |-> HealthyRecommendations(predicted_crop)]
                ELSE common @@ [isHealthy |-> "Unhealthy",
                                predicted_diseases |-> predicted_disease,
                                recommendations |-> recommendations.value]
    IN  [response |-> HttpOk(body),
         advisory |-> [invoked |-> TRUE, value |-> recommendations.value],
         calls |-> recommendations.calls]

\* the decoder: the class of the greatest score, split into crop and disease
Decode(scores, predicted_class_idx) ==
    [ok |-> predicted_class_idx <= Len(class_names)
            /\ Len(SplitLabel[predicted_class_idx]) = 2,
     predicted_class_idx |-> predicted_class_idx,
     confidence |-> scores[predicted_class_idx] * 100]

\* the handler once the scores are decoded: the advisory call is made
\* before the healthy test
PredictAdvise(decoded, language, api_key, outcome) ==
    IF ~decoded.ok THEN PredictFailed
    ELSE PredictDecoded(class_names[decoded.predicted_class_idx],
                        SplitLabel[decoded.predicted_class_idx],
                        decoded.confidence,
                        get_disease_recommendations(
                            SplitLabel[decoded.predicted_class_idx][1],
                            SplitLabel[decoded.predicted_class_idx][2],
                            language, api_key, outcome))

\* the whole handler: [response, advisory, calls]
predict(scorer, language, api_key, outcome) ==
    IF ~scorer.ok \/ Len(scorer.scores) = 0 THEN PredictFailed
    ELSE PredictAdvise(Decode(scorer.scores, ArgMax(scorer.scores)),
                       language, api_key, outcome)

(***************************************************************************)
(* The requests the model draws from.                                      *)
(***************************************************************************)
\* how far the length of a score row may be from the length of class_names
MaxShapeDelta == 1

RowLengths == (Len(class_names) - MaxShapeDelta)..(Len(class_names) + MaxShapeDelta)

\* where a row of n scores may peak: the first classes, a healthy class, the
\* last classes of the table and the end of the row
PeakPositions(n) == {1, 2, 4, Len(class_names) - 1, Len(class_names), n} \cap 1..n

\* a row of n scores (in thousandths) peaking at p, and also at its last
\* position when tie
ScoreRow(n, p, tie) ==
    [i \in 1..n |-> IF i = p \/ (tie /\ i = n) THEN 900 ELSE 10]

ScorerOutcomes ==
    {[ok |-> FALSE, scores |-> <<>>]}
    \cup UNION {{[ok |-> TRUE, scores |-> ScoreRow(n, p, tie)] :
                    p \in PeakPositions(n), tie \in BOOLEAN} : n \in RowLengths}

Languages == {"en", "hi", "ta", "xx"}

\* the text How to grow rice?
QuestionRice == <<
      "H","o","w"," ","t","o"," ","g","r","o","w"," ","r","i","c","e","?" >>

\* the empty text
QuestionEmpty == <<>>

Questions == {QuestionRice, QuestionEmpty}

ApiKeys == {NoKey, "gsk_key"}

(***************************************************************************)
(* app/routes/chat.py                                                      *)
(***************************************************************************)
\* the handler: get_chat_response cannot raise, so the except clause is dead
chat(question, language, api_key, outcome) ==
    LET answer == get_chat_response(question, language, api_key, outcome)
    IN  [response |-> HttpOk([answer |-> answer.value, language |-> language]),
         calls |-> answer.calls]

(***************************************************************************)
(* app/routes/market_prices.py                                             *)
(*                                                                         *)
(* A value of a field of an upstream record is [kind, n, s]: "absent" (the *)
(* key is missing), "num" (a JSON number n), "numstr" (a string that is    *)
(* the decimal numeral of n), "str" (any other non-empty string s),        *)
(* "emptystr" or "null".  Numbers are whole.  In a price view the price is *)
(* kept in hundredths and the change in tenths, the digits round() keeps.  *)
(***************************************************************************)
FieldAbsent   == [kind |-> "absent",   n |-> 0, s |-> ""]
FieldNum(n)   == [kind |-> "num",      n |-> n, s |-> ""]
FieldNumStr(n) == [kind |-> "numstr",  n |-> n, s |-> ""]
FieldStr(s)   == [kind |-> "str",      n |-> 0, s |-> s]
FieldEmptyStr == [kind |-> "emptystr", n |-> 0, s |-> ""]
FieldNull     == [kind |-> "null",     n |-> 0, s |-> ""]

\* record.get(key, default)
RecordGet(v, default) == IF v.kind = "absent" THEN default ELSE v

\* bool(v) of a field value: 0, "" and None are falsy, "0" is not
FieldTruthy(v) ==
    CASE v.kind = "num" -> v.n # 0
      [] v.kind \in {"numstr", "str"} -> TRUE
      [] OTHER -> FALSE

\* float(v) raises ValueError or TypeError unless v is a number or a numeral
CanFloat(v) == v.kind \in {"num", "numstr"}

\* lines 76-84: float(modal_price) if modal_price else float(max_price),
\* and 0 when that raises
ResolvePrice(modal_price, max_price) ==
    IF FieldTruthy(modal_price)
    THEN IF CanFloat(modal_price) THEN modal_price.n ELSE 0
    ELSE IF CanFloat(max_price) THEN max_price.n ELSE 0

Abs(n) == IF n < 0 THEN -n ELSE n

\* a / b rounded to the nearest whole number, halves to the even one
\* (a >= 0, b > 0)
RoundHalfEven(a, b) ==
    IF 2 * (a % b) < b THEN a \div b
    ELSE IF 2 * (a % b) > b THEN a \div b + 1
    ELSE IF (a \div b) % 2 = 0 THEN a \div b ELSE a \div b + 1

\* a variant of FractionAbove that holds of the bound itself
FractionAtLeast(num, den, k) == IF den > 0 THEN num >= k * den ELSE num =< k * den

\* the fraction num / den compared with the whole number k (den # 0)
FractionAbove(num, den, k) == IF den > 0 THEN num > k * den ELSE num < k * den
FractionBelow(num, den, k) == IF den > 0 THEN num < k * den ELSE num > k * den

Stable == [trend |-> "stable", change |-> 0]

\* lines 93-101 for price_variance = num / den; abs() of it in tenths
ClassifyVariance(num, den) ==
    IF FractionAbove(num, den, 5)
    THEN [trend |-> "up", change |-> RoundHalfEven(Abs(num) * 10, Abs(den))]
    ELSE IF FractionBelow(num, den, -5)
         THEN [trend |-> "down", change |-> RoundHalfEven(Abs(num) * 10, Abs(den))]
         ELSE Stable

\* lines 91-104: the trend and the change, rounded to one decimal
Trend(modal_price, min_price, max_price) ==
    IF ~FieldTruthy(modal_price) THEN Stable
    ELSE IF ~(CanFloat(max_price) /\ CanFloat(min_price) /\ CanFloat(modal_price))
         THEN Stable
    ELSE IF modal_price.n = 0 THEN Stable
    ELSE ClassifyVariance((max_price.n - min_price.n) * 100, modal_price.n)

\* the commodity name of a record
CommodityName(record) == RecordGet(record.commodity, FieldStr("Unknown"))

\* the resolved price of a record
PriceOf(record) ==
    ResolvePrice(RecordGet(record.modal_price, FieldNum(0)),
                 RecordGet(record.max_price, FieldNum(0)))

\* lines 89-116: the price view of a record
CropData(record, trend) ==
    [name |-> CommodityName(record),
     price |-> PriceOf(record) * 100,
     unit |-> "quintal",
     trend |-> trend.trend,
     change |-> trend.change,
     market |-> RecordGet(record.market, FieldStr(""))]

PriceView(record) ==
    CropData(record, Trend(RecordGet(record.modal_price, FieldNum(0)),
                           RecordGet(record.min_price, FieldNum(0)),
                           RecordGet(record.max_price, FieldNum(0))))

\* a variant without the test of seen_commodities
EmitsEveryPriced(record, seen_commodities) == PriceOf(record) # 0

\* lines 71-73 and 86-87: whether the record adds a view
Emits(record, seen_commodities) ==
    CommodityName(record) \notin seen_commodities /\ PriceOf(record) # 0

RECURSIVE ProcessRecords(_, _, _, _)
\* the loop of lines 67-118 from the i-th record on; ok = FALSE when
\* record.get raises on a record that is no object
ProcessRecords(records, i, crops, seen_commodities) ==
    IF i > Len(records) THEN [ok |-> TRUE, crops |-> crops]
    ELSE IF records[i].kind # "dict" THEN [ok |-> FALSE, crops |-> <<>>]
    ELSE ProcessRecords(records, i + 1,
                        IF Emits(records[i], seen_commodities)
                        THEN Append(crops, PriceView(records[i]))
                        ELSE crops,
                        seen_commodities \cup {CommodityName(records[i])})

InternalError == HttpError(500, "Internal server error")
ServiceUnavailable == HttpError(503, "Failed to fetch market data")

NoData == HttpOk([success |-> FALSE, message |-> "No data available", crops |-> <<>>])

\* lines 120-124, or the 500 of line 131 when the loop raised
Listing(processed) ==
    IF processed.ok
    THEN HttpOk([success |-> TRUE, count |-> Len(processed.crops), crops |-> processed.crops])
    ELSE InternalError

\* lines 54-124 on the decoded body of a successful response
ProcessData(data) ==
    IF data.top \in {"num", "none"} THEN InternalError
    ELSE IF data.top # "dict" \/ data.records.kind = "missing" THEN NoData
    ELSE IF data.records.kind \notin {"list", "str", "dict"} THEN InternalError
    ELSE Listing(ProcessRecords(data.records.items, 1, <<>>, {}))

\* an optional query parameter that is not given: None, falsy like ""
NoFilter == ""

\* what requests.get is given
FeedCall(state, commodity, limit) ==
    [service |-> "data.gov.in", limit |-> limit, offset |-> 0,
     filters |-> [k \in {f \in {"state", "commodity"} :
                            (f = "state" /\ state # NoFilter)
                            \/ (f = "commodity" /\ commodity # NoFilter)} |->
                     IF k = "state" THEN state ELSE commodity]]

\* the whole handler: [response, calls]
get_market_prices(state, commodity, limit, feed) ==
    [response |->
        CASE feed.kind = "transport_error" -> ServiceUnavailable
          [] feed.kind = "not_json" ->
                IF feed.json_error_is_request_exception THEN ServiceUnavailable
                ELSE InternalError
          [] OTHER -> ProcessData(feed.data),
     calls |-> <<FeedCall(state, commodity, limit)>>]

RECURSIVE InsertBeforeEquals(_, _)
\* a variant that puts crop before its equals, as a sort that is not stable
InsertBeforeEquals(sorted, crop) ==
    IF sorted = <<>> THEN <<crop>>
    ELSE IF Abs(Head(sorted).change) > Abs(crop.change)
         THEN <<Head(sorted)>> \o InsertBeforeEquals(Tail(sorted), crop)
         ELSE <<crop>> \o sorted

RECURSIVE InsertByChange(_, _)
\* crop put into a list sorted by falling abs(change), after its equals
InsertByChange(sorted, crop) ==
    IF sorted = <<>> THEN <<crop>>
    ELSE IF Abs(Head(sorted).change) >= Abs(crop.change)
         THEN <<Head(sorted)>> \o InsertByChange(Tail(sorted), crop)
         ELSE <<crop>> \o sorted

RECURSIVE SortByChange(_, _)
\* sorted(crops, key=abs(change), reverse=True): stable, so equal keys keep
\* their order
SortByChange(crops, n) ==
    IF n = 0 THEN <<>> ELSE InsertByChange(SortByChange(crops, n - 1), crops[n])

\* s[:limit]
Slice(s, limit) ==
    IF limit >= 0 THEN Take(s, limit)
    ELSE SubSeq(s, 1, IF Len(s) + limit > 0 THEN Len(s) + limit ELSE 0)

\* lines 162-166
TrendingListing(crops) ==
    HttpOk([success |-> TRUE, count |-> Len(crops), crops |-> crops])

\* lines 152-166 on the result of get_market_prices; an HTTPException of
\* get_market_prices passes through
Trending(result, limit) ==
    [response |->
        IF result.response.status # 200 \/ ~result.response.body.success
        THEN result.response
        ELSE TrendingListing(Slice(SortByChange(result.response.body.crops,
                                                Len(result.response.body.crops)),
                                   limit)),
     calls |-> result.calls]

\* the whole handler: [response, calls]
get_trending_crops(state, limit, feed) ==
    Trending(get_market_prices(state, NoFilter, 200, feed), limit)

(***************************************************************************)
(* The behaviours of the price feed the model draws from.                  *)
(***************************************************************************)
MaxRecords == 3
MaxLimit == 3

FeedRecord(commodity, modal_price, min_price, max_price, market) ==
    [kind |-> "dict", commodity |-> commodity, modal_price |-> modal_price,
     min_price |-> min_price, max_price |-> max_price, market |-> market]

\* an element of the records that is no object: a number, a string, null
NonObject ==
    [kind |-> "scalar", commodity |-> FieldAbsent, modal_price |-> FieldAbsent,
     min_price |-> FieldAbsent, max_price |-> FieldAbsent, market |-> FieldAbsent]

\* records for the feeds of several records: three names, and per name a
\* price of zero, a variance of exactly 5 and a variance of 10
SeveralNames == {FieldAbsent, FieldStr("Rice"), FieldStr("Wheat")}

SeveralRecords ==
    {FeedRecord(c, FieldNumStr(m), FieldNumStr(m), FieldNumStr(m), FieldAbsent) :
        c \in SeveralNames, m \in {0}}
    \cup {FeedRecord(c, FieldNumStr(20), FieldNumStr(lo), FieldNumStr(21), FieldAbsent) :
        c \in SeveralNames, lo \in {19, 20}}
    \cup {NonObject}

\* records for the feeds of one record
ModalValues ==
    {FieldAbsent, FieldNum(0), FieldNumStr(0), FieldNum(16), FieldNumStr(20),
     FieldNum(30), FieldNum(-20), FieldStr("NR"), FieldEmptyStr, FieldNull}

BoundValues ==
    {FieldAbsent, FieldNumStr(19), FieldNum(20), FieldNumStr(21), FieldNum(40),
     FieldStr("NR")}

SingleRecords ==
    {FeedRecord(c, m, lo, hi, k) :
        c \in {FieldAbsent, FieldStr("Rice")}, m \in ModalValues,
        lo \in BoundValues, hi \in BoundValues,
        k \in {FieldAbsent, FieldStr("Azadpur")}}

\* a record named "Unknown" after one without a name, and before it
UnknownPairs ==
    {<<FeedRecord(a, FieldNumStr(20), FieldNumStr(19), FieldNumStr(21), FieldAbsent),
       FeedRecord(b, FieldNumStr(40), FieldNumStr(19), FieldNumStr(21), FieldAbsent)>> :
        a \in {FieldAbsent, FieldStr("Unknown")}, b \in {FieldAbsent, FieldStr("Unknown")}}

RecordLists ==
    {<<>>} \cup {<<r>> : r \in SingleRecords} \cup UnknownPairs
    \cup UNION {[1..n -> SeveralRecords] : n \in 1..MaxRecords}

FeedData(top, kind, items) ==
    [top |-> top, records |-> [kind |-> kind, items |-> items]]

\* the decoded bodies: values that are no object, objects without records,
\* records that are null, a number, a string or an object, and lists
FeedBodies ==
    {FeedData(top, "missing", <<>>) : top \in {"num", "none", "list", "str", "dict"}}
    \cup {FeedData("dict", kind, <<>>) : kind \in {"none", "num", "str", "dict"}}
    \cup {FeedData("dict", kind, <<NonObject>>) : kind \in {"str", "dict"}}
    \cup {FeedData("dict", "list", items) : items \in RecordLists}

FeedOutcome(kind, as_request_exception, data) ==
    [kind |-> kind, json_error_is_request_exception |-> as_request_exception,
     data |-> data]

\* the fetch fails (network error, timeout, status not 2xx); the body is no
\* JSON, which response.json() reports by an exception that is a
\* RequestException or not, with the version of requests; the body decodes
FeedOutcomes ==
    {FeedOutcome("transport_error", FALSE, FeedData("none", "missing", <<>>))}
    \cup {FeedOutcome("not_json", b, FeedData("none", "missing", <<>>)) : b \in BOOLEAN}
    \cup {FeedOutcome("json", FALSE, d) : d \in FeedBodies}

MarketQueries ==
    {[state |-> NoFilter, commodity |-> NoFilter, limit |-> 100],
     [state |-> "Punjab", commodity |-> NoFilter, limit |-> 100],
     [state |-> NoFilter, commodity |-> "Rice", limit |-> 100],
     [state |-> "Punjab", commodity |-> "Rice", limit |-> 10]}

DefaultQuery == [state |-> NoFilter, commodity |-> NoFilter, limit |-> 100]

\* the filters are drawn with the feeds of at most one record
QueriesFor(feed) ==
    IF Len(feed.data.records.items) <= 1 THEN MarketQueries ELSE {DefaultQuery}

StatesFor(feed) ==
    IF Len(feed.data.records.items) <= 1 THEN {NoFilter, "Punjab"} ELSE {NoFilter}

TrendingLimits == (-1)..MaxLimit

(***************************************************************************)
(* The state machine: one request at a time, each handler one step.        *)
(***************************************************************************)
VARIABLES
    GROQ_API_KEY,   \* the credential in the process environment
    pc,             \* "idle" or "done"
    endpoint,       \* the handler that ran
    request,        \* its inputs
    upstream,       \* how the external collaborators behaved during it
    calls,          \* the outbound calls it made
    advisory,       \* predict's local recommendations: [invoked, value]
    response        \* what the caller got

vars == <<GROQ_API_KEY, pc, endpoint, request, upstream, calls, advisory, response>>

Nothing == [none |-> TRUE]

Init ==
    /\ GROQ_API_KEY \in ApiKeys
    /\ pc = "idle"
    /\ endpoint = "none"
    /\ request = Nothing
    /\ upstream = Nothing
    /\ calls = <<>>
    /\ advisory = NotInvoked
    /\ response = Nothing

\* POST /api/predict
Predict ==
    /\ pc = "idle"
    /\ \E scorer \in ScorerOutcomes, language \in Languages, outcome \in ServiceOutcomes :
          \E r \in {predict(scorer, language, GROQ_API_KEY, outcome)} :
              /\ request' = [scores |-> scorer.scores, language |-> language]
              /\ upstream' = [scorer_ok |-> scorer.ok,
                              groq |-> IF r.calls = <<>> THEN Nothing ELSE outcome]
              /\ calls' = r.calls
              /\ advisory' = r.advisory
              /\ response' = r.response
    /\ endpoint' = "predict"
    /\ pc' = "done"
    /\ UNCHANGED GROQ_API_KEY

\* POST /api/chat
Chat ==
    /\ pc = "idle"
    /\ \E question \in Questions, language \in Languages, outcome \in ServiceOutcomes :
          \E r \in {chat(question, language, GROQ_API_KEY, outcome)} :
              /\ request' = [question |-> question, language |-> language]
              /\ upstream' = [groq |-> IF r.calls = <<>> THEN Nothing ELSE outcome]
              /\ calls' = r.calls
              /\ response' = r.response
    /\ advisory' = NotInvoked
    /\ endpoint' = "chat"
    /\ pc' = "done"
    /\ UNCHANGED GROQ_API_KEY

\* GET /api/market-prices
MarketPrices ==
    /\ pc = "idle"
    /\ \E feed \in FeedOutcomes :
          \E query \in QueriesFor(feed) :
            \E r \in {get_market_prices(query.state, query.commodity, query.limit, feed)} :
              /\ request' = query
              /\ upstream' = [feed |-> feed]
              /\ calls' = r.calls
              /\ response' = r.response
    /\ advisory' = NotInvoked
    /\ endpoint' = "market-prices"
    /\ pc' = "done"
    /\ UNCHANGED GROQ_API_KEY

\* GET /api/market-prices/trending
TrendingCrops ==
    /\ pc = "idle"
    /\ \E feed \in FeedOutcomes, limit \in TrendingLimits :
          \E state \in StatesFor(feed) :
            \E r \in {get_trending_crops(state, limit, feed)} :
              /\ request' = [state |-> state, limit |-> limit]
              /\ upstream' = [feed |-> feed]
              /\ calls' = r.calls
              /\ response' = r.response
    /\ advisory' = NotInvoked
    /\ endpoint' = "trending"
    /\ pc' = "done"
    /\ UNCHANGED GROQ_API_KEY

\* the response is sent; nothing of the request is kept
Return ==
    /\ pc = "done"
    /\ pc' = "idle"
    /\ endpoint' = "none"
    /\ request' = Nothing
    /\ upstream' = Nothing
    /\ calls' = <<>>
    /\ advisory' = NotInvoked
    /\ response' = Nothing
    /\ UNCHANGED GROQ_API_KEY

Next == Predict \/ Chat \/ MarketPrices \/ TrendingCrops \/ Return

Spec == Init /\ [][Next]_vars

(***************************************************************************)
(* The claims.                                                             *)
(***************************************************************************)
Done(e) == pc = "done" /\ endpoint = e

\* the crop and the disease predict decoded from the scores of the request
DecodedParts == SplitLabel[ArgMax(request.scores)]

\* C1: whatever the text service does, get_disease_recommendations returns
\* a list of 1 to 6 strings.
C1_AdvisoryIsOneToSixStrings ==
    (Done("predict") /\ advisory.invoked) =>
        /\ advisory.value.type = "list"
        /\ Len(advisory.value.val) \in 1..6
        /\ \A i \in 1..Len(advisory.value.val) : advisory.value.val[i].type = "str"

\* C2: get_chat_response never returns an empty answer: text that is empty
\* after trimming is replaced by the fallback answer.
C2_ChatAnswerNeverEmpty ==
    Done("chat") =>
        /\ response.status = 200
        /\ response.body.answer.type = "str"
        /\ Len(response.body.answer.val) > 0

\* the request met a case C3 names: no credential, a failed call, or text
\* that is invalid JSON and of which no line survives the filter
C3_FallbackCase ==
    \/ GROQ_API_KEY = NoKey
    \/ /\ GROQ_API_KEY # NoKey
       /\ \/ upstream.groq.kind = "error"
          \/ /\ upstream.groq.kind = "text"
             /\ ~JsonLoads(Strip(upstream.groq.text)).ok
             /\ HeuristicParse(Strip(upstream.groq.text)) = <<>>

C3_StaticFallback ==
    PyList(IF request.language = "hi"
           THEN FallbackHi(DecodedParts[1], DecodedParts[2])
           ELSE FallbackEn(DecodedParts[1], DecodedParts[2]))

\* C3: without credential, on a failed call, and on invalid JSON of which
\* no line survives, get_disease_recommendations returns the static
\* fallback list of the language, the English one for a language without
\* an entry: a function of crop, disease and language alone.
C3_FallbackIsStatic ==
    (Done("predict") /\ advisory.invoked /\ C3_FallbackCase) =>
        advisory.value = C3_StaticFallback

\* the text service answered invalid JSON without a surviving line, for a
\* request in Hindi, and the Hindi fallback came back
C3_Witness ==
    /\ Done("predict") /\ advisory.invoked
    /\ GROQ_API_KEY # NoKey
    /\ request.language = "hi"
    /\ upstream.groq = ServiceText(TextBlank)
    /\ advisory.value = PyList(FallbackHi(DecodedParts[1], DecodedParts[2]))

\* C4: when the decoded disease is "healthy", predict does not invoke
\* get_disease_recommendations, makes no call to the text service, and
\* answers the canned recommendations of the healthy branch.
C4_HealthySkipsAdvisory ==
    (Done("predict") /\ response.status = 200 /\ response.body.isHealthy = "Healthy") =>
        /\ ~advisory.invoked
        /\ calls = <<>>
        /\ response.body.recommendations = HealthyRecommendations(response.body.predicted_crop)

\* the records of the feed of the request, when the body held a list
FeedItems == upstream.feed.data.records.items

Listed(e) ==
    /\ Done(e) /\ response.status = 200 /\ response.body.success
    /\ upstream.feed.data.records.kind = "list"

\* C5: a record with a resolved price of zero does not count for the
\* deduplication: the first later record of the same name with another
\* price is in the output.
C5_ZeroPriceDoesNotHideLaterRecord ==
    Listed("market-prices") =>
        \A i, j \in 1..Len(FeedItems) :
            (/\ i < j
             /\ CommodityName(FeedItems[i]) = CommodityName(FeedItems[j])
             /\ PriceOf(FeedItems[j]) # 0
             /\ \A k \in 1..(j - 1) :
                   CommodityName(FeedItems[k]) = CommodityName(FeedItems[j])
                   => PriceOf(FeedItems[k]) = 0)
            => \E v \in 1..Len(response.body.crops) :
                  response.body.crops[v].name = CommodityName(FeedItems[j])

\* the records of a name that have a price other than zero
C6_Priced(name) ==
    {i \in 1..Len(FeedItems) :
        CommodityName(FeedItems[i]) = name /\ PriceOf(FeedItems[i]) # 0}

\* C6: the listing holds at most one view per commodity name (records
\* without a name are named "Unknown"), and the view of a name is the view
\* of the first of its records that have a price other than zero, never of
\* a later one.
C6_OneViewPerNameFirstWins ==
    Listed("market-prices") =>
        /\ \A k, l \in 1..Len(response.body.crops) :
              response.body.crops[k].name = response.body.crops[l].name => k = l
        /\ \A k \in 1..Len(response.body.crops) :
              /\ C6_Priced(response.body.crops[k].name) # {}
              /\ response.body.crops[k] =
                    PriceView(FeedItems[Least(C6_Priced(response.body.crops[k].name))])

\* a record without a name, then a different record named "Unknown", both
\* priced: the listing is the view of the first
C6_Witness ==
    /\ Listed("market-prices")
    /\ Len(FeedItems) = 2
    /\ FeedItems[1].commodity = FieldAbsent
    /\ FeedItems[2].commodity = FieldStr("Unknown")
    /\ C6_Priced(FieldStr("Unknown")) = {1, 2}
    /\ PriceView(FeedItems[1]) # PriceView(FeedItems[2])
    /\ response.body.crops = <<PriceView(FeedItems[1])>>

\* the listing get_trending_crops got from get_market_prices
C7_Listing ==
    get_market_prices(request.state, NoFilter, 200, upstream.feed).response.body.crops

\* the place of the i-th view when the views are ordered by falling
\* abs(change), equal ones in their order in the listing
C7_Place(listing, i) ==
    1 + Cardinality({j \in 1..Len(listing) :
            \/ Abs(listing[j].change) > Abs(listing[i].change)
            \/ Abs(listing[j].change) = Abs(listing[i].change) /\ j < i})

C7_ExampleViews ==
    [i \in 1..5 |-> [name |-> i, change |-> <<10, 90, 30, 70, 20>>[i]]]

\* C7: for a limit >= 0, get_trending_crops returns the first min(limit, n)
\* views of the listing ordered by falling abs(change), views of equal
\* abs(change) in their order in the listing; changes 1, 9, 3, 7, 2 with
\* limit 3 give 9, 7, 3.
C7_TrendingIsTopByChange ==
    /\ (Listed("trending") /\ request.limit >= 0) =>
          /\ Len(response.body.crops) = Min(request.limit, Len(C7_Listing))
          /\ response.body.count = Len(response.body.crops)
          /\ \A i \in 1..Len(C7_Listing) :
                C7_Place(C7_Listing, i) <= request.limit
                => response.body.crops[C7_Place(C7_Listing, i)] = C7_Listing[i]
    /\ Slice(SortByChange(C7_ExampleViews, 5), 3)
          = <<C7_ExampleViews[2], C7_ExampleViews[4], C7_ExampleViews[3]>>

\* three views, the first of a smaller change than the two others, which
\* are equal: the top two are the second and the third, in that order
C7_Witness ==
    /\ Listed("trending") /\ request.limit = 2
    /\ Len(C7_Listing) = 3
    /\ C7_Listing[1].change < C7_Listing[2].change
    /\ C7_Listing[2].change = C7_Listing[3].change
    /\ response.body.crops = <<C7_Listing[2], C7_Listing[3]>>

\* C8: a body that decodes but has not the expected shape (no object, no
\* records, records that are no list, records that are no objects) gives
\* the flagged result without data, never an error.
C8_MalformedBodyGivesNoData ==
    (Done("market-prices") /\ upstream.feed.kind = "json") =>
        /\ response.status = 200
        /\ (\/ upstream.feed.data.top # "dict"
            \/ upstream.feed.data.records.kind # "list"
            \/ \E i \in 1..Len(FeedItems) : FeedItems[i].kind # "dict")
           => response = NoData

\* C9: a row of scores whose length is not the length of class_names makes
\* predict fail with a server error.
C9_WrongLengthFails ==
    (Done("predict") /\ upstream.scorer_ok /\ Len(request.scores) # Len(class_names)) =>
        response.status = 500

\* the record a view of the listing is built from: the first of its name
C10_Source(view) ==
    FeedItems[Least({i \in 1..Len(FeedItems) : CommodityName(FeedItems[i]) = view.name})]

\* a price of a record as a number: a missing minPrice or maxPrice is 0
C10_Number(v) == IF v.kind = "absent" THEN FieldNum(0) ELSE v

\* the variance of a record is (maxPrice - minPrice) / modalPrice * 100
\* when modalPrice is there and not zero and the three are numbers, else 0
C10_HasVariance(r) ==
    /\ r.modal_price.kind \in {"num", "numstr"} /\ r.modal_price.n # 0
    /\ C10_Number(r.min_price).kind \in {"num", "numstr"}
    /\ C10_Number(r.max_price).kind \in {"num", "numstr"}

C10_Num(r) == (C10_Number(r.max_price).n - C10_Number(r.min_price).n) * 100
C10_Den(r) == r.modal_price.n

\* variance > 5 and variance < -5, the division cleared
C10_Above5(r) ==
    C10_HasVariance(r) /\
    IF C10_Den(r) > 0 THEN C10_Num(r) > 5 * C10_Den(r) ELSE C10_Num(r) < 5 * C10_Den(r)
C10_BelowMinus5(r) ==
    C10_HasVariance(r) /\
    IF C10_Den(r) > 0 THEN C10_Num(r) < -5 * C10_Den(r) ELSE C10_Num(r) > -5 * C10_Den(r)

C10_TrendIsByVariance(view) ==
    /\ (view.trend = "up") = C10_Above5(C10_Source(view))
    /\ (view.trend = "down") = C10_BelowMinus5(C10_Source(view))
    /\ view.trend \in {"up", "down", "stable"}
    /\ view.change >= 0
    /\ view.trend = "stable" => view.change = 0

\* C10 as claimed: the trend is up exactly above 5, down exactly below -5,
\* else stable; changePercent is |variance| for up and down, 0 for stable,
\* never negative.  (change is in tenths.)
C10_ChangeIsVariance ==
    Listed("market-prices") =>
        \A k \in 1..Len(response.body.crops) :
            /\ C10_TrendIsByVariance(response.body.crops[k])
            /\ response.body.crops[k].trend \in {"up", "down"} =>
                  response.body.crops[k].change * Abs(C10_Den(C10_Source(response.body.crops[k])))
                      = 10 * Abs(C10_Num(C10_Source(response.body.crops[k])))

\* C10 amended: the same, with changePercent the |variance| rounded to one
\* decimal for up and down: no further from it than half a tenth.
C10_ChangeIsRoundedVariance ==
    Listed("market-prices") =>
        \A k \in 1..Len(response.body.crops) :
            /\ C10_TrendIsByVariance(response.body.crops[k])
            /\ response.body.crops[k].trend \in {"up", "down"} =>
                  2 * Abs(response.body.crops[k].change * Abs(C10_Den(C10_Source(response.body.crops[k])))
                          - 10 * Abs(C10_Num(C10_Source(response.body.crops[k]))))
                      <= Abs(C10_Den(C10_Source(response.body.crops[k])))

\* a record with a variance of exactly 5 is listed as stable with change 0
C10_Witness ==
    /\ Listed("market-prices")
    /\ Len(FeedItems) = 1
    /\ C10_HasVariance(FeedItems[1])
    /\ C10_Num(FeedItems[1]) = 5 * C10_Den(FeedItems[1])
    /\ Len(response.body.crops) = 1
    /\ response.body.crops[1].trend = "stable"
    /\ response.body.crops[1].change = 0

\* whether a price field of a record is a number or a numeral
C11_Parses(v) == v.kind \in {"num", "numstr"}

\* the resolved price as C11 states it: modalPrice when it parses, else
\* maxPrice when that parses, else zero
C11_Resolved(r) ==
    IF C11_Parses(r.modal_price) THEN r.modal_price.n
    ELSE IF C11_Parses(r.max_price) THEN r.max_price.n
    ELSE 0

\* C11: a record whose modalPrice is absent or does not parse is priced at
\* maxPrice when that parses; so the first record of a name whose price so
\* resolved is not zero is listed, at that price (in hundredths).
C11_UnparsableModalFallsBackToMax ==
    Listed("market-prices") =>
        \A i \in 1..Len(FeedItems) :
            (/\ \A k \in 1..(i - 1) :
                   CommodityName(FeedItems[k]) # CommodityName(FeedItems[i])
             /\ C11_Resolved(FeedItems[i]) # 0)
            => \E v \in 1..Len(response.body.crops) :
                  /\ response.body.crops[v].name = CommodityName(FeedItems[i])
                  /\ response.body.crops[v].price = C11_Resolved(FeedItems[i]) * 100

====
